---- MODULE Spec2Model ----
(***************************************************************************)
(* Model of the voice receiver of discord-voice-recognizer.                *)
(*                                                                         *)
(* src/src/main.rs:      State, Receiver, Receiver::update_audio_buffer,   *)
(*                       Receiver::write_audio_to_file, Receiver::act      *)
(* src/src/recognize.rs: GoogleSpeechRecognizer::execute,                  *)
(*                       GoogleSpeechSuccessResponse::get_best_alternative *)
(*                                                                         *)
(* Every invocation of Receiver::act is a task; tasks interleave at the    *)
(* await points of the code (the lock acquisitions, the transcription      *)
(* request, the channel message).  A futures::lock::Mutex guard is         *)
(* released when it is dropped: at the end of the statement for a          *)
(* temporary, at the return of the function for a local, and while a       *)
(* panic unwinds.                                                          *)
(***************************************************************************)
EXTENDS Integers, Sequences, FiniteSets, TLC

\* ---------------------------------------------------------------- bounds
MaxBuffer == 2      \* retained samples per buffer
MaxEvents == 4      \* events delivered in one run
CountCap == 2       \* times_submitted saturates here: CountCap is "CountCap or more"

\* stream identifiers (u32) and the concurrent invocations of Receiver::act
SSRCs == {3, 7}
Tasks == {1, 2}
NoTask == 0

\* user ids of the voice gateway; NoUser is user_id == None
UserIds == {1, 7}
NoUser == 0
\* data.audio == None: the driver did not decode the packet
NoAudio == [decoded |-> FALSE, samples |-> <<>>]
SomeAudio(samples) == [decoded |-> TRUE, samples |-> samples]

\* the decoded packets the transport delivers: an empty list, padding only,
\* padding mixed with audio on either side, audio only
Packets == {<<>>, <<0, 0>>, <<1, 0>>, <<0, -1>>, <<1, -1>>}

\* ------------------------------------------------------- pure functions

\* HashMap::insert / HashMap::remove on a map held as a function
InsertIfVacant(m, k, v) == [x \in DOMAIN m \cup {k} |-> IF x \in DOMAIN m THEN m[x] ELSE v]
MapInsert(m, k, v) == [x \in DOMAIN m \cup {k} |-> IF x = k THEN v ELSE m[x]]
MapRemove(m, k) == [x \in DOMAIN m \ {k} |-> m[x]]
EmptyMap == [x \in {} |-> <<>>]

\* audio.iter().filter(|&x| *x != 0) ... collect()            main.rs:67-73
KeepAllSamples(audio) == audio
RECURSIVE NonZeroSamples(_)
NonZeroSamples(audio) ==
    IF audio = <<>> THEN <<>>
    ELSE IF Head(audio) # 0
         THEN <<Head(audio)>> \o NonZeroSamples(Tail(audio))
         ELSE NonZeroSamples(Tail(audio))

\* user_audio_buffer.extend_from_slice(..)                     main.rs:66
ReplaceBySlice(buffer, samples) == samples
ExtendFromSlice(buffer, samples) == buffer \o samples

\* audio_buffer.entry(ssrc).or_insert(Vec::new())              main.rs:64
EntryOrInsert(map, ssrc) == IF ssrc \in DOMAIN map THEN map[ssrc] ELSE <<>>

\* audio_buffer.get(&data.ssrc).unwrap().clone()               main.rs:146
CloneOtherBuffer(map, ssrc) == map[CHOOSE k \in DOMAIN map : \A j \in DOMAIN map : k <= j]
CloneFirstSample(map, ssrc) == IF map[ssrc] = <<>> THEN <<>> ELSE <<Head(map[ssrc])>>
CloneBuffer(map, ssrc) == map[ssrc]

\* format!("{}", n) of an unsigned integer
Digits == <<"0", "1", "2", "3", "4", "5", "6", "7", "8", "9">>
RECURSIVE ToDecimal(_)
ToDecimal(n) ==
    IF n < 10 THEN Digits[n + 1]
    ELSE ToDecimal(n \div 10) \o Digits[(n % 10) + 1]

\* format!("{}-output.wav", ssrc)                              main.rs:79,156,157
FileName(ssrc) == ToDecimal(ssrc) \o "-output.wav"

\* format!("{} disse: {}", data.ssrc, transcription)           main.rs:169
Announcement(ssrc, transcription) == ToDecimal(ssrc) \o " disse: " \o transcription

\* user_id.clone().unwrap().0.to_string()                      main.rs:135
UserName(user_id) == ToDecimal(user_id)

\* ------------------------------------------- recognize.rs: the recognizer
NaN == -1
Alt(t, c) == [transcript |-> t, confidence |-> c]
\* results of a response: each result is its list of alternatives
ResultLists ==
    { <<>>,
      << <<>> >>,
      << <<Alt("oi", 1)>> >>,
      << <<Alt("oi", 1), Alt("ola", 2)>> >>,
      << <<Alt("ola", 2), Alt("oi", 1)>>, <<Alt("oi", 1)>> >>,
      << <<Alt("oi", 1), Alt("ola", NaN)>> >> }
Responses ==
    [kind : {"no_api_key", "transport_error", "not_json", "undeserializable"}, results : {<<>>}]
    \cup [kind : {"success"}, results : ResultLists]

NoneValue == [tag |-> "None", text |-> ""]
SomeValue(t) == [tag |-> "Some", text |-> t]
PanicValue == [tag |-> "panic", text |-> ""]
NotCalled == [tag |-> "not_called", text |-> ""]

\* a.confidence.partial_cmp(&b.confidence).unwrap()            recognize.rs:34
ComparePanics(alts) ==
    Len(alts) > 1 /\ \E i \in 1..Len(alts) : alts[i].confidence = NaN

\* Iterator::max_by: the last of the maximal elements          recognize.rs:33-34
RECURSIVE MaxBy(_)
MaxBy(alts) ==
    IF Len(alts) = 1 THEN alts[1]
    ELSE LET rest == MaxBy(Tail(alts))
         IN  IF rest.confidence >= Head(alts).confidence THEN rest ELSE Head(alts)

\* GoogleSpeechSuccessResponse::get_best_alternative           recognize.rs:31-35
\* <<>> is Option::None
GetBestAlternative(results) ==
    IF results = <<>> THEN <<>>
    ELSE IF results[1] = <<>> THEN <<>>
    ELSE IF ComparePanics(results[1]) THEN <<>>
    ELSE <<MaxBy(results[1])>>

\* .expect("Failed to get best alternative") and the unwrap of partial_cmp
\*                                                             recognize.rs:34,87-89
SuccessPanics(results) ==
    \/ GetBestAlternative(results) = <<>>
    \/ ComparePanics(results[1])

\* GoogleSpeechRecognizer::execute, by the collaborator's answer
\*                                                             recognize.rs:39-102
Execute(resp) ==
    CASE resp.kind = "no_api_key" -> PanicValue                 \* :45
      [] resp.kind = "transport_error" -> PanicValue            \* :69-72
      [] resp.kind = "not_json" -> PanicValue                   \* :78
      [] resp.kind = "undeserializable" -> NoneValue            \* :80-83, :97-100
      [] resp.kind = "success" ->
            IF SuccessPanics(resp.results) THEN PanicValue
            ELSE SomeValue(GetBestAlternative(resp.results)[1].transcript)

\* ------------------------------------------------------------------ state
VARIABLES
    audio_buffer_map,   \* State.audio_buffer_map: HashMap<u32, Vec<i16>>    main.rs:40
    users_ssrc_map,     \* State.users_ssrc_map: HashMap<u32, String>        main.rs:41
    state_lock,         \* holder of Receiver.state: Arc<Mutex<State>>       main.rs:46
    audio_buffer_lock,  \* holder of the Mutex around audio_buffer_map       main.rs:40
    users_ssrc_lock,    \* holder of the Mutex around users_ssrc_map         main.rs:41
    recognizer_lock,    \* holder of the Mutex around the recognizer         main.rs:42
    files,              \* the working directory: file name -> samples written
    channel,            \* the messages channel_id.say delivered, in order
    pc,                 \* per task: the position in Receiver::act
    ev,                 \* per task: the event (ctx) being handled
    user_audio_buffer,  \* per task: the local of main.rs:146
    file,               \* per task: the local of main.rs:156
    transcription,      \* per task: the local of main.rs:160
    write_failed,       \* per task: write_audio_to_file printed an error (main.rs:91,96)
    delivered,          \* number of events delivered so far
    arrived,            \* history: per ssrc, the non-zero samples of the packets
                        \* appended since its buffer was created
    times_submitted,    \* history: per ssrc and buffer position, the number of
                        \* transcription requests that carried the sample
    stopped             \* history: per ssrc, a speaking-stop handler that took a
                        \* non-empty buffer has returned and no packet was
                        \* appended since

shared == <<audio_buffer_map, users_ssrc_map, files, channel>>
locks == <<state_lock, audio_buffer_lock, users_ssrc_lock, recognizer_lock>>
locals == <<user_audio_buffer, file, transcription, write_failed>>
history == <<arrived, times_submitted, stopped>>
vars == <<audio_buffer_map, users_ssrc_map, state_lock, audio_buffer_lock,
          users_ssrc_lock, recognizer_lock, files, channel, pc, ev,
          user_audio_buffer, file, transcription, write_failed, delivered,
          arrived, times_submitted, stopped>>

\* the events the receiver is registered for                   main.rs:307-326
Event(k, s, u, sp, a) == [kind |-> k, ssrc |-> s, user_id |-> u, speaking |-> sp, audio |-> a]
NoEvent == Event("none", 0, NoUser, FALSE, NoAudio)
EventsOfEveryClass ==
    {Event("SpeakingStateUpdate", s, u, FALSE, NoAudio) : s \in SSRCs, u \in UserIds \cup {NoUser}}
    \cup {Event("SpeakingUpdate", s, NoUser, sp, NoAudio) : s \in SSRCs, sp \in BOOLEAN}
    \cup {Event("VoicePacket", s, NoUser, FALSE, a) : s \in SSRCs, a \in {SomeAudio(p) : p \in Packets} \cup {NoAudio}}
    \cup {Event(k, 0, NoUser, FALSE, NoAudio) : k \in {"RtcpPacket", "DriverConnect"}}
    \cup {Event("ClientDisconnect", 0, u, FALSE, NoAudio) : u \in UserIds}
Events ==
    {Event("SpeakingStateUpdate", s, u, FALSE, NoAudio) : s \in SSRCs, u \in UserIds \cup {NoUser}}
    \cup {Event("SpeakingUpdate", s, NoUser, sp, NoAudio) : s \in SSRCs, sp \in BOOLEAN}
    \cup {Event("VoicePacket", s, NoUser, FALSE, a) : s \in SSRCs, a \in {SomeAudio(p) : p \in Packets} \cup {NoAudio}}
    \cup {Event("RtcpPacket", 0, NoUser, FALSE, NoAudio)}
    \cup {Event("ClientDisconnect", 0, u, FALSE, NoAudio) : u \in UserIds}

AnySpeakingUpdate(e) == e.kind = "SpeakingUpdate"
IsStop(e) == e.kind = "SpeakingUpdate" /\ ~e.speaking
AnyVoicePacket(e) == e.kind = "VoicePacket"
IsPacket(e) == e.kind = "VoicePacket" /\ e.audio.decoded

\* the first position of the branch of the match               main.rs:106-222
\* "unimplemented" is the unimplemented!() of the fallthrough branch, main.rs:218-221
Entry(e) ==
    CASE e.kind = "SpeakingStateUpdate" -> "ssu_lock_state"
      [] IsStop(e) -> "stop_lock_state"
      [] IsPacket(e) -> "pkt_lock_state"
      [] e.kind = "SpeakingUpdate" /\ ~IsStop(e) -> "log_only"
      [] e.kind = "VoicePacket" /\ ~IsPacket(e) -> "log_only"
      [] e.kind \in {"RtcpPacket", "ClientDisconnect"} -> "log_only"
      [] OTHER -> "unimplemented"

Init ==
    /\ audio_buffer_map = EmptyMap                              \* main.rs:293
    /\ users_ssrc_map = EmptyMap                                \* main.rs:294
    /\ state_lock = NoTask
    /\ audio_buffer_lock = NoTask
    /\ users_ssrc_lock = NoTask
    /\ recognizer_lock = NoTask
    /\ files = EmptyMap
    /\ channel = <<>>
    /\ pc = [t \in Tasks |-> "idle"]
    /\ ev = [t \in Tasks |-> NoEvent]
    /\ user_audio_buffer = [t \in Tasks |-> <<>>]
    /\ file = [t \in Tasks |-> <<>>]
    /\ transcription = [t \in Tasks |-> NotCalled]
    /\ write_failed = [t \in Tasks |-> FALSE]
    /\ delivered = 0
    /\ arrived = [s \in SSRCs |-> <<>>]
    /\ times_submitted = [s \in SSRCs |-> <<>>]
    /\ stopped = [s \in SSRCs |-> FALSE]

\* ---------------------------------------------------------------- helpers
ReleaseOfAnyHolder(lock, t) == NoTask
Released(lock, t) == IF lock = t THEN NoTask ELSE lock

\* every guard the task holds is dropped: at a return or while a panic unwinds
LeakGuards(t) == UNCHANGED locks
DropGuards(t) ==
    /\ state_lock' = Released(state_lock, t)
    /\ audio_buffer_lock' = Released(audio_buffer_lock, t)
    /\ users_ssrc_lock' = Released(users_ssrc_lock, t)
    /\ recognizer_lock' = Released(recognizer_lock, t)

\* act returns: its parameter and locals go out of scope, its guards are dropped
Return(t) ==
    /\ pc' = [pc EXCEPT ![t] = "done"]
    /\ ev' = [ev EXCEPT ![t] = NoEvent]
    /\ user_audio_buffer' = [user_audio_buffer EXCEPT ![t] = <<>>]
    /\ file' = [file EXCEPT ![t] = <<>>]
    /\ transcription' = [transcription EXCEPT ![t] = NotCalled]
    /\ write_failed' = [write_failed EXCEPT ![t] = FALSE]
    /\ DropGuards(t)

\* a panic at `place` leaves act by unwinding: the locals and the guards are
\* dropped, the invocation is over and its task takes no further event
Panic(t, place) ==
    /\ pc' = [pc EXCEPT ![t] = "panicked"]
    /\ ev' = [ev EXCEPT ![t] = NoEvent]
    /\ user_audio_buffer' = [user_audio_buffer EXCEPT ![t] = <<>>]
    /\ file' = [file EXCEPT ![t] = <<>>]
    /\ transcription' = [transcription EXCEPT ![t] = NotCalled]
    /\ write_failed' = [write_failed EXCEPT ![t] = FALSE]
    /\ DropGuards(t)

\* the task moves to the next position of act, nothing else of it changes
Goto(t, position) ==
    /\ pc' = [pc EXCEPT ![t] = position]
    /\ UNCHANGED ev

NonZeroCount(audio) == Len(SelectSeq(audio, LAMBDA v : v # 0))

\* samples a packet still waiting for the locks will append for ssrc
Pending(s) == {t \in Tasks : pc[t] \in {"pkt_lock_state", "pkt_lock_buffer", "pkt_extend"}
                              /\ ev[t].ssrc = s}
RECURSIVE PendingCount(_)
PendingCount(ts) ==
    IF ts = {} THEN 0
    ELSE LET t == CHOOSE x \in ts : TRUE
         IN  NonZeroCount(ev[t].audio.samples) + PendingCount(ts \ {t})

BufferLen(s) == IF s \in DOMAIN audio_buffer_map THEN Len(audio_buffer_map[s]) ELSE 0

Free(t) == pc[t] \in {"idle", "done"}

\* the transport hands one more event to a free invocation of act; the
\* invocations are interchangeable, the first free one takes it
Deliver(t, e) ==
    /\ Free(t)
    /\ \A u \in Tasks : Free(u) => t <= u
    /\ delivered < MaxEvents
    /\ IsPacket(e) =>
         BufferLen(e.ssrc) + PendingCount(Pending(e.ssrc)) + NonZeroCount(e.audio.samples)
             <= MaxBuffer
    /\ delivered' = delivered + 1
    /\ pc' = [pc EXCEPT ![t] = Entry(e)]
    /\ ev' = [ev EXCEPT ![t] = e]
    /\ UNCHANGED <<shared, locks, locals, history>>

\* speaking == true, a packet without audio, RTCP, client disconnect:
\* the branch only prints                            main.rs:138-140,201-203,205-217
LogOnly(t) ==
    /\ pc[t] = "log_only"
    /\ Return(t)
    /\ UNCHANGED <<shared, delivered, history>>

\* ------------------------------------------- Receiver::update_audio_buffer
\* let state = self.state.lock().await                         main.rs:61
PktLockState(t) ==
    /\ pc[t] = "pkt_lock_state"
    /\ state_lock = NoTask
    /\ state_lock' = t
    /\ Goto(t, "pkt_lock_buffer")
    /\ UNCHANGED <<shared, audio_buffer_lock, users_ssrc_lock, recognizer_lock,
                   locals, delivered, history>>

\* let mut audio_buffer = state.audio_buffer_map.lock().await  main.rs:63
PktLockBuffer(t) ==
    /\ pc[t] = "pkt_lock_buffer"
    /\ audio_buffer_lock = NoTask
    /\ audio_buffer_lock' = t
    /\ Goto(t, "pkt_extend")
    /\ UNCHANGED <<shared, state_lock, users_ssrc_lock, recognizer_lock,
                   locals, delivered, history>>

\* entry(ssrc).or_insert, extend_from_slice, return            main.rs:64-75
PktExtend(t) ==
    LET s == ev[t].ssrc
        old == EntryOrInsert(audio_buffer_map, s)
        new == ExtendFromSlice(old, NonZeroSamples(ev[t].audio.samples))
    IN  /\ pc[t] = "pkt_extend"
        /\ audio_buffer_map' = MapInsert(audio_buffer_map, s, new)
        /\ arrived' = [arrived EXCEPT
                         ![s] = @ \o SelectSeq(ev[t].audio.samples, LAMBDA v : v # 0)]
        /\ times_submitted' = [times_submitted EXCEPT
                                 ![s] = @ \o [i \in 1..(Len(new) - Len(old)) |-> 0]]
        /\ stopped' = [stopped EXCEPT ![s] = FALSE]
        /\ Return(t)
        /\ UNCHANGED <<users_ssrc_map, files, channel, delivered>>

\* ------------------------------------- Receiver::act, SpeakingStateUpdate
\* self.state.lock().await                                     main.rs:129-131
SsuLockState(t) ==
    /\ pc[t] = "ssu_lock_state"
    /\ state_lock = NoTask
    /\ state_lock' = t
    /\ Goto(t, "ssu_lock_users")
    /\ UNCHANGED <<shared, audio_buffer_lock, users_ssrc_lock, recognizer_lock,
                   locals, delivered, history>>

\* .users_ssrc_map.lock().await                                main.rs:132-134
SsuLockUsers(t) ==
    /\ pc[t] = "ssu_lock_users"
    /\ users_ssrc_lock = NoTask
    /\ users_ssrc_lock' = t
    /\ Goto(t, "ssu_insert")
    /\ UNCHANGED <<shared, state_lock, audio_buffer_lock, recognizer_lock,
                   locals, delivered, history>>

\* .insert(*ssrc, user_id.clone().unwrap().0.to_string())      main.rs:135
\* the argument is evaluated with both guards alive; they are temporaries of
\* the statement
SsuInsert(t) ==
    /\ pc[t] = "ssu_insert"
    /\ IF ev[t].user_id = NoUser
       THEN /\ Panic(t, "main.rs:135")
            /\ UNCHANGED users_ssrc_map
       ELSE /\ users_ssrc_map' = MapInsert(users_ssrc_map, ev[t].ssrc, UserName(ev[t].user_id))
            /\ Return(t)
    /\ UNCHANGED <<audio_buffer_map, files, channel, delivered, history>>

\* ------------------------ Receiver::act, SpeakingUpdate, speaking == false
\* let state = self.state.lock().await                         main.rs:144
StopLockState(t) ==
    /\ pc[t] = "stop_lock_state"
    /\ state_lock = NoTask
    /\ state_lock' = t
    /\ Goto(t, "stop_lock_buffer")
    /\ UNCHANGED <<shared, audio_buffer_lock, users_ssrc_lock, recognizer_lock,
                   locals, delivered, history>>

\* let mut audio_buffer = state.audio_buffer_map.lock().await  main.rs:145
StopLockBuffer(t) ==
    /\ pc[t] = "stop_lock_buffer"
    /\ audio_buffer_lock = NoTask
    /\ audio_buffer_lock' = t
    /\ Goto(t, "stop_get")
    /\ UNCHANGED <<shared, state_lock, users_ssrc_lock, recognizer_lock,
                   locals, delivered, history>>

\* audio_buffer.get(&data.ssrc).unwrap().clone(); the len() == 0 return
\*                                                             main.rs:146-150
StopGetWithoutLenCheck(t) ==
    /\ pc[t] = "stop_get"
    /\ IF ev[t].ssrc \notin DOMAIN audio_buffer_map
       THEN Panic(t, "main.rs:146")
       ELSE /\ user_audio_buffer' = [user_audio_buffer EXCEPT
                                       ![t] = CloneBuffer(audio_buffer_map, ev[t].ssrc)]
            /\ Goto(t, "stop_write")
            /\ UNCHANGED <<locks, file, transcription, write_failed>>
    /\ UNCHANGED <<shared, delivered, history>>
StopGet(t) ==
    /\ pc[t] = "stop_get"
    /\ IF ev[t].ssrc \notin DOMAIN audio_buffer_map
       THEN Panic(t, "main.rs:146")
       ELSE LET buf == CloneBuffer(audio_buffer_map, ev[t].ssrc)
            IN  IF Len(buf) = 0
                THEN Return(t)
                ELSE /\ user_audio_buffer' = [user_audio_buffer EXCEPT ![t] = buf]
                     /\ Goto(t, "stop_write")
                     /\ UNCHANGED <<locks, file, transcription, write_failed>>
    /\ UNCHANGED <<shared, delivered, history>>

\* the handler of a speaking-stop that took a non-empty buffer returns
EndOfFinalization(t) == stopped' = [stopped EXCEPT ![ev[t].ssrc] = TRUE]

Prefixes(samples) == {SubSeq(samples, 1, n) : n \in 0..(Len(samples) - 1)}

\* self.write_audio_to_file(data.ssrc, user_audio_buffer.clone())
\*                                                   main.rs:153, main.rs:77-98
\* create fails: the unwrap of :87 panics.  A failing write_sample or finalize
\* is only printed (:90-97) and leaves a file that holds fewer samples.
StopWrite(t) ==
    /\ pc[t] = "stop_write"
    /\ \/ /\ Panic(t, "main.rs:87")
          /\ UNCHANGED <<files, stopped>>
       \/ /\ \E written \in {user_audio_buffer[t]} \cup Prefixes(user_audio_buffer[t]) :
                /\ files' = MapInsert(files, FileName(ev[t].ssrc), written)
                /\ write_failed' = [write_failed EXCEPT ![t] = (written # user_audio_buffer[t])]
          /\ Goto(t, "stop_read")
          /\ UNCHANGED <<locks, user_audio_buffer, file, transcription, stopped>>
    /\ UNCHANGED <<audio_buffer_map, users_ssrc_map, channel, delivered,
                   arrived, times_submitted>>

\* let file = std::fs::read(format!(..)).unwrap()              main.rs:156
StopRead(t) ==
    /\ pc[t] = "stop_read"
    /\ \/ /\ Panic(t, "main.rs:156")
          /\ UNCHANGED stopped
       \/ /\ FileName(ev[t].ssrc) \in DOMAIN files
          /\ file' = [file EXCEPT ![t] = files[FileName(ev[t].ssrc)]]
          /\ Goto(t, "stop_remove_file")
          /\ UNCHANGED <<locks, user_audio_buffer, transcription, write_failed, stopped>>
    /\ UNCHANGED <<shared, delivered, arrived, times_submitted>>

\* std::fs::remove_file(format!(..)).unwrap()                  main.rs:157
StopRemoveFile(t) ==
    /\ pc[t] = "stop_remove_file"
    /\ \/ /\ Panic(t, "main.rs:157")
          /\ UNCHANGED <<files, stopped>>
       \/ /\ FileName(ev[t].ssrc) \in DOMAIN files
          /\ files' = MapRemove(files, FileName(ev[t].ssrc))
          /\ Goto(t, "stop_lock_recognizer")
          /\ UNCHANGED <<locks, locals, stopped>>
    /\ UNCHANGED <<audio_buffer_map, users_ssrc_map, channel, delivered,
                   arrived, times_submitted>>

\* let recognizer = state.recognizer.lock().await              main.rs:159
StopLockRecognizer(t) ==
    /\ pc[t] = "stop_lock_recognizer"
    /\ recognizer_lock = NoTask
    /\ recognizer_lock' = t
    /\ Goto(t, "stop_execute")
    /\ UNCHANGED <<shared, state_lock, audio_buffer_lock, users_ssrc_lock,
                   locals, delivered, history>>

Min(a, b) == IF a <= b THEN a ELSE b

\* recognizer.execute(file): the request leaves with the bytes of the file
\*                                                             main.rs:160
StopExecute(t) ==
    LET s == ev[t].ssrc
    IN  /\ pc[t] = "stop_execute"
        /\ times_submitted' = [times_submitted EXCEPT ![s] =
               [i \in 1..Len(@) |-> IF i <= Len(file[t]) THEN Min(@[i] + 1, CountCap) ELSE @[i]]]
        /\ Goto(t, "transcribing")
        /\ UNCHANGED <<shared, locks, locals, delivered, arrived, stopped>>

\* where execute panics for a response                         recognize.rs:45,71,78,34,89
PanicPlace(resp) ==
    CASE resp.kind = "no_api_key" -> "recognize.rs:45"
      [] resp.kind = "transport_error" -> "recognize.rs:71"
      [] resp.kind = "not_json" -> "recognize.rs:78"
      [] OTHER -> IF resp.results # <<>> /\ ComparePanics(resp.results[1])
                  THEN "recognize.rs:34" ELSE "recognize.rs:89"

\* .await of execute ends; if let Some(..) / else return None  main.rs:160-176
StopTranscribed(t) ==
    /\ pc[t] = "transcribing"
    /\ \E resp \in Responses :
         LET result == Execute(resp)
         IN  CASE result.tag = "panic" ->
                    /\ Panic(t, PanicPlace(resp))
                    /\ UNCHANGED stopped
               [] result.tag = "None" ->
                    /\ Return(t)
                    /\ EndOfFinalization(t)
               [] OTHER ->
                    /\ transcription' = [transcription EXCEPT ![t] = result]
                    /\ Goto(t, "stop_say")
                    /\ UNCHANGED <<locks, user_audio_buffer, file, write_failed, stopped>>
    /\ UNCHANGED <<shared, delivered, arrived, times_submitted>>

\* check_msg(channel_id.say(..).await); audio_buffer.remove(&data.ssrc); return
\*                                                   main.rs:163-172,178-180,380-384
StopSay(t) ==
    LET s == ev[t].ssrc
    IN  /\ pc[t] = "stop_say"
        /\ \E sent \in BOOLEAN :
             channel' = IF sent THEN Append(channel, Announcement(s, transcription[t].text))
                        ELSE channel
        /\ audio_buffer_map' = MapRemove(audio_buffer_map, s)
        /\ arrived' = [arrived EXCEPT ![s] = <<>>]
        /\ times_submitted' = [times_submitted EXCEPT ![s] = <<>>]
        /\ EndOfFinalization(t)
        /\ Return(t)
        /\ UNCHANGED <<users_ssrc_map, files, delivered>>

\* ------------------------------------------------------------ the system
Step(t) ==
    \/ LogOnly(t)
    \/ PktLockState(t) \/ PktLockBuffer(t) \/ PktExtend(t)
    \/ SsuLockState(t) \/ SsuLockUsers(t) \/ SsuInsert(t)
    \/ StopLockState(t) \/ StopLockBuffer(t) \/ StopGet(t)
    \/ StopWrite(t) \/ StopRead(t) \/ StopRemoveFile(t)
    \/ StopLockRecognizer(t) \/ StopExecute(t)
    \/ StopSay(t)

Next ==
    \/ \E t \in Tasks, e \in Events : Deliver(t, e)
    \/ \E t \in Tasks : Step(t)
    \/ \E t \in Tasks : StopTranscribed(t)

Spec == Init /\ [][Next]_vars

\* Every step of a handler is taken once it can be, except the end of the
\* transcription request: the remote service may never answer.
FairSpec == Spec /\ \A t \in Tasks : WF_vars(Step(t))

\* ================================================================ claims

NonZero(samples) == SelectSeq(samples, LAMBDA v : v # 0)
InFinalization(t) ==
    pc[t] \in {"stop_write", "stop_read", "stop_remove_file", "stop_lock_recognizer",
               "stop_execute", "transcribing", "stop_say"}
Waiting(t) == pc[t] \in {"pkt_lock_state", "ssu_lock_state", "stop_lock_state"}

\* C1: every retained sample is handed to the transcription collaborator in
\* at most one finalization: no sample of a buffer is carried by two
\* transcription requests, whatever the outcome (transcript, none) of the
\* earlier one.  Stated for the runs in which every handler returned, so that
\* a second request after a panic does not count.
C1_SubmittedAtMostOnce ==
    (\A t \in Tasks : pc[t] # "panicked") =>
        \A s \in SSRCs : \A i \in 1..Len(times_submitted[s]) : times_submitted[s][i] <= 1

C3_NoLockWhileTranscribing ==
    \A t \in Tasks : pc[t] = "transcribing" =>
        /\ state_lock # t
        /\ audio_buffer_lock # t
        /\ users_ssrc_lock # t
        /\ \A u \in Tasks : (Waiting(u) /\ ev[u].ssrc # ev[t].ssrc) => state_lock = NoTask

\* C4: when the transcription returns none for a non-empty buffer, the
\* handling ends with no announcement sent and with the buffer of the
\* identifier out of the store.
C4_NoneLeavesNoBuffer ==
    [][\A t \in Tasks :
          (pc[t] = "transcribing" /\ pc'[t] = "done") =>
              (channel' = channel /\ ev[t].ssrc \notin DOMAIN audio_buffer_map')]_vars

\* C5: a speaking-stop for an identifier that has no buffer in the store
\* completes with no further action: the handler returns, nothing is sent and
\* both stores are unchanged.
C5_StopWithoutBufferReturns ==
    [][\A t \in Tasks :
          (pc[t] = "stop_get" /\ ev[t].ssrc \notin DOMAIN audio_buffer_map /\ pc'[t] # pc[t]) =>
              (pc'[t] = "done" /\ UNCHANGED shared)]_vars

\* C6: after a speaking-stop has been handled for a non-empty buffer, with
\* any outcome, the buffer of the identifier is absent until its next packet,
\* and that packet starts a buffer that holds only its own non-zero samples.
C6_FreshBufferAfterStop ==
    [][\A s \in SSRCs :
          /\ stopped'[s] => s \notin DOMAIN audio_buffer_map'
          /\ (stopped[s] /\ ~stopped'[s]) =>
                \E t \in Tasks : /\ pc[t] = "pkt_extend"
                                 /\ ev[t].ssrc = s
                                 /\ audio_buffer_map'[s] = NonZero(ev[t].audio.samples)]_vars

\* C7: the announcement of a finalized utterance names the speaker identity
\* bound to the identifier, and the raw identifier only when it has none.
SpeakerOf(s) == IF s \in DOMAIN users_ssrc_map THEN users_ssrc_map[s] ELSE ToDecimal(s)
C7_AnnouncementNamesSpeaker ==
    [][\A t \in Tasks :
          (pc[t] = "stop_say" /\ channel' # channel) =>
              channel' = Append(channel, SpeakerOf(ev[t].ssrc) \o " disse: "
                                           \o transcription[t].text)]_vars

\* C8: no failure terminates a handler: for every event and every outcome of
\* a collaborator the handler returns normally.
C8_NoHandlerPanics == \A t \in Tasks : pc[t] # "panicked"

\* C9: while the transcription call for identifier A does not return, an
\* event delivered for another identifier B is still eventually handled.
C9_OthersHandledWhileHung ==
    \A t \in Tasks : \A u \in Tasks \ {t} :
        (pc[t] = "transcribing" /\ Waiting(u) /\ ev[u].ssrc # ev[t].ssrc)
            ~> (pc[u] \in {"done", "panicked"})


\* C10: speaking-stops of two distinct identifiers with non-empty buffers,
\* handled concurrently: the request of each carries exactly the buffer of
\* its own identifier (the non-zero samples that arrived for it, when the
\* file was written whole), and the two handlers never block each other for
\* good: one of them can always take its next step.
InStop(t) ==
    pc[t] \in {"stop_lock_state", "stop_lock_buffer", "stop_get"} \/ InFinalization(t)
C11_OneFinalizationPerId ==
    \A t \in Tasks : \A u \in Tasks \ {t} :
        (InFinalization(t) /\ InFinalization(u)) => ev[t].ssrc # ev[u].ssrc

\* a second speaking-stop of the identifier arrived while its finalization is
\* in flight, and waits
C11_Witness ==
    \E t \in Tasks : \E u \in Tasks \ {t} :
        /\ InFinalization(t)
        /\ pc[u] = "stop_lock_state"
        /\ ev[u].ssrc = ev[t].ssrc

\* C12: a speaking-stop for an identifier whose buffer is present but empty
\* (every packet was all-zero) returns at once: no file is written, no
\* transcription request is made, nothing is announced, and no handler is ever
\* in the encode/transcribe/announce sequence with an empty buffer.
C12_EmptyBufferSkipsFinalization ==
    /\ [](\A t \in Tasks : InFinalization(t) => user_audio_buffer[t] # <<>>)
    /\ [][\A t \in Tasks :
             (/\ pc[t] = "stop_get"
              /\ ev[t].ssrc \in DOMAIN audio_buffer_map
              /\ audio_buffer_map[ev[t].ssrc] = <<>>
              /\ pc'[t] # pc[t]) =>
                 (pc'[t] = "done" /\ UNCHANGED <<shared, times_submitted>>)]_vars

\* the handler of the stop holds the store and finds the empty buffer
C12_Witness ==
    \E t \in Tasks :
        /\ pc[t] = "stop_get"
        /\ ev[t].ssrc \in DOMAIN audio_buffer_map
        /\ audio_buffer_map[ev[t].ssrc] = <<>>
        /\ audio_buffer_lock = t

\* C13: the transient file of a finalization is gone by the end of the
\* speaking-stop handling on every path: a file named after an identifier
\* exists only while a handler of that identifier is between writing it and
\* removing it.
C13_TransientFileRemoved ==
    \A s \in SSRCs :
        FileName(s) \in DOMAIN files =>
            \E t \in Tasks : pc[t] \in {"stop_read", "stop_remove_file"} /\ ev[t].ssrc = s

\* C14: a speaking-state-update(X, speaker) binds X to that speaker,
\* overwriting an earlier binding and changing nothing when the binding is
\* already that speaker; the other bindings and the buffer store stay as they
\* were, and no step of a handler of an audio packet or of a speaking update
\* changes a binding.
Stepped(t) == pc'[t] # pc[t]
C14_BindingLastWriteWins ==
    [][\A t \in Tasks :
          /\ (pc[t] = "ssu_insert" /\ ev[t].user_id # NoUser /\ Stepped(t)) =>
                /\ DOMAIN users_ssrc_map' = DOMAIN users_ssrc_map \cup {ev[t].ssrc}
                /\ users_ssrc_map'[ev[t].ssrc] = ToDecimal(ev[t].user_id)
                /\ \A s \in DOMAIN users_ssrc_map \ {ev[t].ssrc} :
                      users_ssrc_map'[s] = users_ssrc_map[s]
                /\ (/\ ev[t].ssrc \in DOMAIN users_ssrc_map
                    /\ users_ssrc_map[ev[t].ssrc] = ToDecimal(ev[t].user_id)) =>
                       users_ssrc_map' = users_ssrc_map
          /\ (ev[t].kind = "SpeakingStateUpdate" /\ Stepped(t)) =>
                audio_buffer_map' = audio_buffer_map
          /\ (ev[t].kind \in {"VoicePacket", "SpeakingUpdate"} /\ Stepped(t)) =>
                users_ssrc_map' = users_ssrc_map]_vars

\* the identifier is bound to one speaker and the update of another speaker
\* for it is about to be stored
C14_Witness ==
    \E t \in Tasks :
        /\ pc[t] = "ssu_insert"
        /\ ev[t].user_id # NoUser
        /\ ev[t].ssrc \in DOMAIN users_ssrc_map
        /\ users_ssrc_map[ev[t].ssrc] # ToDecimal(ev[t].user_id)
        /\ audio_buffer_map # EmptyMap

\* C15: speaking-start and disconnect are observational only: their handler
\* returns leaving the buffer store and the identity store exactly as they
\* were; speaking-start creates no buffer and disconnect removes none.
C15_StartAndDisconnectObserveOnly ==
    [][\A t \in Tasks :
          (/\ \/ ev[t].kind = "SpeakingUpdate" /\ ev[t].speaking
              \/ ev[t].kind = "ClientDisconnect"
           /\ Stepped(t)) =>
              /\ pc'[t] = "done"
              /\ audio_buffer_map' = audio_buffer_map
              /\ users_ssrc_map' = users_ssrc_map]_vars

\* a speaking-start of an identifier without a buffer and a disconnect are
\* both about to be handled while the store holds a buffer
C15_Witness ==
    \E t \in Tasks : \E u \in Tasks \ {t} :
        /\ pc[t] = "log_only" /\ ev[t].kind = "SpeakingUpdate" /\ ev[t].speaking
        /\ ev[t].ssrc \notin DOMAIN audio_buffer_map
        /\ pc[u] = "log_only" /\ ev[u].kind = "ClientDisconnect"
        /\ audio_buffer_map # EmptyMap

\* C16: an audio packet without decoded samples appends nothing and creates
\* no buffer, while a packet whose decoded list is empty or all-zero creates
\* an empty buffer for its identifier when none exists.
C16_UndecodedPacketCreatesNoBuffer ==
    [][\A t \in Tasks :
          /\ (ev[t].kind = "VoicePacket" /\ ~ev[t].audio.decoded /\ Stepped(t)) =>
                (pc'[t] = "done" /\ audio_buffer_map' = audio_buffer_map)
          /\ (/\ ev[t].kind = "VoicePacket" /\ ev[t].audio.decoded
              /\ NonZero(ev[t].audio.samples) = <<>>
              /\ ev[t].ssrc \notin DOMAIN audio_buffer_map
              /\ pc[t] = "pkt_extend" /\ Stepped(t)) =>
                 /\ ev[t].ssrc \in DOMAIN audio_buffer_map'
                 /\ audio_buffer_map'[ev[t].ssrc] = <<>>]_vars

\* an all-zero packet has left an empty buffer for one identifier, and a
\* packet without decoded samples is being handled for another that has none
C16_Witness ==
    \E t \in Tasks : \E s \in DOMAIN audio_buffer_map :
        /\ audio_buffer_map[s] = <<>>
        /\ pc[t] = "log_only" /\ ev[t].kind = "VoicePacket" /\ ~ev[t].audio.decoded
        /\ ev[t].ssrc \notin DOMAIN audio_buffer_map

\* C17: speaking-stop is the sole deletion path: in every step that is not a
\* step of a speaking-stop handler of the identifier, a buffer that is present
\* stays present and its content is a prefix of its new content.
IsPrefix(a, b) == Len(a) <= Len(b) /\ SubSeq(b, 1, Len(a)) = a
C17_StopIsSoleDeletion ==
    [][\A s \in DOMAIN audio_buffer_map :
          \/ s \in DOMAIN audio_buffer_map' /\ IsPrefix(audio_buffer_map[s], audio_buffer_map'[s])
          \/ \E t \in Tasks : /\ ev[t].kind = "SpeakingUpdate" /\ ~ev[t].speaking
                              /\ ev[t].ssrc = s
                              /\ Stepped(t)]_vars

\* a buffer has grown by a second packet
C17_Witness == \E s \in DOMAIN audio_buffer_map : audio_buffer_map[s] = <<-1, 1>>

\* C18: every event kind the receiver is registered for has its own branch,
\* so the fallthrough branch is never reached, and the handler of an RTCP
\* packet changes no session state and takes no lock.
C18_FallthroughUnreachable ==
    /\ [](/\ \A e \in Events : Entry(e) # "unimplemented"
          /\ \A t \in Tasks : pc[t] # "unimplemented")
    /\ [][\A t \in Tasks :
             (ev[t].kind = "RtcpPacket" /\ Stepped(t)) =>
                 (pc'[t] = "done" /\ UNCHANGED <<shared, locks>>)]_vars

\* an RTCP packet is being handled while both stores hold entries
C18_Witness ==
    \E t \in Tasks :
        /\ pc[t] = "log_only" /\ ev[t].kind = "RtcpPacket"
        /\ audio_buffer_map # EmptyMap
        /\ users_ssrc_map # EmptyMap

\* C19: the locks are taken in one order (session state, then the buffer map
\* and then the recognizer, or the identity map), and whenever a handler is
\* in progress some handler can take its next step or have its transcription
\* call return: the handlers never all wait for a lock.
Busy(t) == pc[t] \notin {"idle", "done", "panicked"}
C19_LockOrderNoDeadlock ==
    /\ \A t \in Tasks : audio_buffer_lock = t => state_lock = t
    /\ \A t \in Tasks : users_ssrc_lock = t => state_lock = t
    /\ \A t \in Tasks : recognizer_lock = t => audio_buffer_lock = t
    /\ \A t \in Tasks : (users_ssrc_lock = t) => (audio_buffer_lock # t)
    /\ (\E t \in Tasks : Busy(t)) =>
           ENABLED (\E t \in Tasks : Step(t) \/ StopTranscribed(t))

\* one handler holds the state, the buffer map and the recognizer while
\* another waits for the state
C19_Witness ==
    \E t \in Tasks : \E u \in Tasks \ {t} :
        /\ state_lock = t /\ audio_buffer_lock = t /\ recognizer_lock = t
        /\ Waiting(u)

\* C20: no sample is lost between snapshot and removal: the buffer of the
\* identifier stays equal to the copy taken from it for as long as the
\* finalization is in flight (and to the bytes transcribed, when the file was
\* written whole), so the buffer removed after the transcript is exactly that
\* copy; a packet of the identifier delivered meanwhile still waits when the
\* buffer is removed, and is appended to the buffer the store then holds.
C20_RemovedBufferIsTheCopy ==
    /\ [](\A t \in Tasks :
             /\ InFinalization(t) =>
                   /\ ev[t].ssrc \in DOMAIN audio_buffer_map
                   /\ audio_buffer_map[ev[t].ssrc] = user_audio_buffer[t]
             /\ (pc[t] \in {"transcribing", "stop_say"} /\ ~write_failed[t]) =>
                   file[t] = user_audio_buffer[t])
    /\ [][\A t \in Tasks :
             /\ (pc[t] = "stop_say" /\ Stepped(t)) =>
                   /\ ev[t].ssrc \notin DOMAIN audio_buffer_map'
                   /\ \A u \in Pending(ev[t].ssrc) : pc'[u] = pc[u] /\ ev'[u] = ev[u]
             /\ (pc[t] = "pkt_extend" /\ Stepped(t)) =>
                   audio_buffer_map'[ev[t].ssrc] =
                       (IF ev[t].ssrc \in DOMAIN audio_buffer_map
                        THEN audio_buffer_map[ev[t].ssrc] ELSE <<>>)
                           \o NonZero(ev[t].audio.samples)]_vars

\* the transcript has arrived while a packet of the same identifier that
\* carries a non-zero sample waits
C20_Witness ==
    \E t \in Tasks : \E u \in Tasks \ {t} :
        /\ pc[t] = "stop_say"
        /\ pc[u] = "pkt_lock_state"
        /\ ev[u].ssrc = ev[t].ssrc
        /\ NonZero(ev[u].audio.samples) # <<>>

====
